---------------------------- MODULE Spec2Model ----------------------------
(***************************************************************************)
(* A model of cask (src/main.go, the TTL-aware server of lines 207-596):   *)
(* the Store with lazy and active expiry, and handleConnection's frame     *)
(* decoder and command dispatcher.                                         *)
(*                                                                         *)
(* Time is the monotonic clock of time.Now(), counted in ticks of          *)
(* 1/TicksPerSec second, so that instants less than a second apart are     *)
(* distinguished.  Strings that the code inspects byte by byte (keys,      *)
(* patterns, the wire) are sequences of one-character strings.             *)
(***************************************************************************)
EXTENDS Integers, Sequences, FiniteSets, TLC

VARIABLES
    data,      \* Store.data: key -> Entry, with found = FALSE for an absent key
    now,       \* the reading of time.Now(), in ticks
    sweepAt,   \* the instant at which cleanupExpiredKeys' current Sleep ends
    hist,      \* per key: the last Set on it, and what was done to the key since
    inbuf,     \* handleConnection: the bytes received and not yet read from reader
    eof,       \* the client has closed its side: a read past inbuf fails
    sent,      \* how many pieces of input the client has sent
    pc,        \* handleConnection: where the connection's goroutine stands
    numArgs,   \* handleConnection: numArgs of the frame being decoded
    bulkLen,   \* handleConnection: bulkLen of the element being decoded
    args,      \* handleConnection: args decoded so far
    out,       \* the replies written to conn in the current iteration of the loop
    ncalls,    \* how many Store methods the current iteration has called
    mu,        \* Store.mu: the context that holds it, or Free
    at,        \* per context: where it stands with respect to Store.mu
    scan       \* the map iteration (range s.data) in progress under Store.mu

lockVars == <<mu, at, scan>>
storeVars == <<data, now, sweepAt, hist, lockVars>>
connVars == <<inbuf, eof, sent, pc, numArgs, bulkLen, args, out, ncalls>>
vars == <<data, now, sweepAt, hist, inbuf, eof, sent, pc, numArgs, bulkLen, args, out, ncalls,
          mu, at, scan>>

----------------------------------------------------------------------------
(* Bounds of the model *)

\* ticks per second: the resolution of the clock
TicksPerSec == 2
\* the clock stops advancing at MaxTime ticks
MaxTime == 5

\* a connection is followed for the first MaxWireTime ticks
MaxWireTime == MaxTime - 2
\* the largest ttlSeconds / seconds argument a caller passes
MaxTTL == 1
\* the number of pieces of input a client sends on its connection
MaxSends == 2
\* the width in bits of int and of time.Duration (64 in the code): a duration in
\* ticks is kept in IntBits bits as the code keeps one in nanoseconds in 64
IntBits == 5

(* Program constants *)

\* the zero time.Time of an Entry built without expiry (Entry{value: value})
ZeroTime == -1
\* time.Sleep(1 * time.Second) in cleanupExpiredKeys, in seconds
SweepSeconds == 1

SweepPeriod == SweepSeconds * TicksPerSec

KeyA == <<"a">>
KeyB == <<"b", "/">>
KeySet == {KeyA, KeyB}
ValueSet == {<<"x">>, <<"y">>}
PatternSet == {<<"*">>, <<"b", "?">>, <<"b", "/">>}

----------------------------------------------------------------------------
(* Entry and time *)

\* what `entry, found := s.data[key]` yields for a key that is not in the map
NoEntry == [found |-> FALSE, value |-> <<>>, expiresAt |-> ZeroTime, hasExpiry |-> FALSE]

NewEntry(v, e, h) == [found |-> TRUE, value |-> v, expiresAt |-> e, hasExpiry |-> h]

\* time.Time.After
After(t, u) == t > u

\* the duration taken as time.Duration(seconds), without the "* time.Second":
\* nanoseconds, less than one tick
DurationInNanoseconds(seconds) == 0

\* the largest int, which is the largest value strconv.Atoi returns
MaxInt == 2^(IntBits - 1) - 1

\* a signed integer of IntBits bits after an overflow: two's complement
WrapInt(n) == ((n + 2^(IntBits - 1)) % 2^IntBits) - 2^(IntBits - 1)

\* time.Duration(seconds) * time.Second, in ticks: the product wraps around
Duration(seconds) == WrapInt(seconds * TicksPerSec)

\* int(time.Until(expiresAt).Seconds()): the conversion truncates toward zero
UntilSeconds(t, e) ==
    IF e - t >= 0 THEN (e - t) \div TicksPerSec
                  ELSE 0 - ((t - e) \div TicksPerSec)

\* entry.hasExpiry && time.Now().After(entry.expiresAt)
Expired(e, t) == e.hasExpiry /\ After(t, e.expiresAt)

\* delete(s.data, k)
Delete(d, k) == [d EXCEPT ![k] = NoEntry]


\* filepath.Match for patterns without '[' and '\': '*' matches any run of
\* non-separator characters, '?' one non-separator character
RECURSIVE Match(_, _)
Match(p, s) ==
    IF p = <<>> THEN s = <<>>
    ELSE IF Head(p) = "*"
         THEN Match(Tail(p), s) \/ (s # <<>> /\ Head(s) # "/" /\ Match(p, Tail(s)))
    ELSE IF Head(p) = "?"
         THEN s # <<>> /\ Head(s) # "/" /\ Match(Tail(p), Tail(s))
    ELSE s # <<>> /\ Head(s) = Head(p) /\ Match(Tail(p), Tail(s))

----------------------------------------------------------------------------
(* The Store methods.  Each runs under s.mu from entry to return, so each  *)
(* is one step: XxxData is the map it leaves, XxxRet the value it returns. *)

\* Set with "ttlSeconds >= 0" for "ttlSeconds > 0"
SetDataExpiresAtZero(d, t, k, v, ttl) ==
    [d EXCEPT ![k] = IF ttl >= 0 THEN NewEntry(v, t + Duration(ttl), TRUE)
                                 ELSE NewEntry(v, ZeroTime, FALSE)]

\* Set that updates the value of the entry it finds, where it should build one
SetDataKeepsExpiry(d, t, k, v, ttl) ==
    [d EXCEPT ![k] = IF ttl > 0 THEN NewEntry(v, t + Duration(ttl), TRUE)
                     ELSE IF d[k].found THEN [d[k] EXCEPT !.value = v]
                     ELSE NewEntry(v, ZeroTime, FALSE)]

SetData(d, t, k, v, ttl) ==
    [d EXCEPT ![k] = IF ttl > 0 THEN NewEntry(v, t + Duration(ttl), TRUE)
                                ELSE NewEntry(v, ZeroTime, FALSE)]

GetData(d, t, k) == IF d[k].found /\ Expired(d[k], t) THEN Delete(d, k) ELSE d

\* (value, found)
GetRet(d, t, k) ==
    IF ~d[k].found THEN <<<<>>, FALSE>>
    ELSE IF Expired(d[k], t) THEN <<<<>>, FALSE>>
    ELSE <<d[k].value, TRUE>>

\* Del that replaces the map where it should delete one key
DelDataClearsMap(d, k) == IF d[k].found THEN [j \in DOMAIN d |-> NoEntry] ELSE d

DelData(d, k) == IF d[k].found THEN Delete(d, k) ELSE d

DelRet(d, k) == d[k].found

ExistsData(d, t, k) ==
    IF ~d[k].found \/ Expired(d[k], t)
    THEN (IF d[k].found THEN Delete(d, k) ELSE d)
    ELSE d

ExistsRet(d, t, k) == ~(~d[k].found \/ Expired(d[k], t))

\* Persist without "entry.hasExpiry = false"
PersistDataKeepsExpiry(d, k) == d

PersistData(d, k) ==
    IF ~d[k].found THEN d ELSE [d EXCEPT ![k].hasExpiry = FALSE]

PersistRet(d, k) == d[k].found

FlushAllData(d) == [k \in DOMAIN d |-> NoEntry]

KeysData(d, t) ==
    [k \in DOMAIN d |-> IF d[k].found /\ Expired(d[k], t) THEN NoEntry ELSE d[k]]

\* the slice returned, as a set: the map is ranged over in no fixed order
KeysRet(d, t, p) ==
    {k \in DOMAIN d : d[k].found /\ ~Expired(d[k], t) /\ Match(p, k)}

\* Rename without "delete(s.data, oldKey)"
RenameDataCopies(d, o, n) ==
    IF ~d[o].found THEN d ELSE [d EXCEPT ![n] = d[o]]

RenameData(d, o, n) ==
    IF ~d[o].found THEN d ELSE [Delete(d, o) EXCEPT ![n] = d[o]]

RenameRet(d, o) == d[o].found

TTLData(d, t, k) ==
    IF d[k].found /\ d[k].hasExpiry /\ UntilSeconds(t, d[k].expiresAt) < 0
    THEN Delete(d, k) ELSE d

TTLRet(d, t, k) ==
    IF ~d[k].found THEN -2
    ELSE IF ~d[k].hasExpiry THEN -1
    ELSE IF UntilSeconds(t, d[k].expiresAt) < 0 THEN -2
    ELSE UntilSeconds(t, d[k].expiresAt)

ExpireData(d, t, k, seconds) ==
    IF ~d[k].found THEN d
    ELSE [d EXCEPT ![k].hasExpiry = TRUE, ![k].expiresAt = t + Duration(seconds)]

ExpireRet(d, k) == d[k].found

\* the sweep with the comparison turned round: v.expiresAt.After(now)
SweepDataReversed(d, t) ==
    [k \in DOMAIN d |-> IF d[k].hasExpiry /\ After(d[k].expiresAt, t) THEN NoEntry ELSE d[k]]

\* one pass of cleanupExpiredKeys' loop body, with now := time.Now() read once
SweepData(d, t) ==
    [k \in DOMAIN d |-> IF d[k].hasExpiry /\ After(t, d[k].expiresAt) THEN NoEntry ELSE d[k]]

----------------------------------------------------------------------------
(* Strings of the wire: bufio, strings and strconv *)

CR == "\r"
LF == "\n"
Digits == <<"0", "1", "2", "3", "4", "5", "6", "7", "8", "9">>
LowerCase == <<"a", "b", "c", "d", "e", "f", "g", "h", "i", "j", "k", "l", "m",
               "n", "o", "p", "q", "r", "s", "t", "u", "v", "w", "x", "y", "z">>
UpperCase == <<"A", "B", "C", "D", "E", "F", "G", "H", "I", "J", "K", "L", "M",
               "N", "O", "P", "Q", "R", "S", "T", "U", "V", "W", "X", "Y", "Z">>

\* the white space strings.TrimSpace removes
IsSpace(c) == c \in {" ", "\t", CR, LF}

IsDigit(c) == \E i \in 1..Len(Digits) : Digits[i] = c

DigitVal(c) == (CHOOSE i \in 1..Len(Digits) : Digits[i] = c) - 1

\* the input holds a whole line: reader.ReadString('\n') returns without error
HasLine(s) == \E i \in 1..Len(s) : s[i] = LF

LineEnd(s) == CHOOSE i \in 1..Len(s) : s[i] = LF /\ \A j \in 1..(i - 1) : s[j] # LF

\* the line reader.ReadString('\n') returns, delimiter included
ReadLine(s) == SubSeq(s, 1, LineEnd(s))

\* what stays in the reader after it
AfterLine(s) == SubSeq(s, LineEnd(s) + 1, Len(s))

RECURSIVE TrimLeft(_)
TrimLeft(s) == IF s # <<>> /\ IsSpace(Head(s)) THEN TrimLeft(Tail(s)) ELSE s

RECURSIVE TrimRight(_)
TrimRight(s) ==
    IF s # <<>> /\ IsSpace(s[Len(s)]) THEN TrimRight(SubSeq(s, 1, Len(s) - 1)) ELSE s

\* strings.TrimSpace
TrimSpace(s) == TrimRight(TrimLeft(s))

\* strings.HasPrefix(s, c) for a one-character prefix
HasPrefix(s, c) == s # <<>> /\ Head(s) = c

UpperChar(c) ==
    IF \E i \in 1..Len(LowerCase) : LowerCase[i] = c
    THEN UpperCase[CHOOSE i \in 1..Len(LowerCase) : LowerCase[i] = c]
    ELSE c

\* strings.ToUpper
ToUpper(s) == [i \in 1..Len(s) |-> UpperChar(s[i])]

RECURSIVE DigitsVal(_)
DigitsVal(s) ==
    IF s = <<>> THEN 0
    ELSE DigitsVal(SubSeq(s, 1, Len(s) - 1)) * 10 + DigitVal(s[Len(s)])

\* strconv.Atoi: an optional sign, then one or more decimal digits
Atoi(s) ==
    LET body == IF s # <<>> /\ Head(s) \in {"+", "-"} THEN Tail(s) ELSE s
    IN  IF body = <<>> \/ \E i \in 1..Len(body) : ~IsDigit(body[i])
        THEN [err |-> TRUE, n |-> 0]
        ELSE [err |-> FALSE,
              n |-> IF Head(s) = "-" THEN 0 - DigitsVal(body) ELSE DigitsVal(body)]

----------------------------------------------------------------------------
(* What is recorded about the run *)

\* What has happened to a key since the last Set on it:
\*   "none"    no Set, or a Del, FlushAll, Rename away from it or onto it since
\*   "noexp"   Set(k, value, 0), and since then nothing but reads and Persist
\*   "expire"  as "noexp", but with an Expire(k, _) since
\*   "ttl"     Set(k, value, ttl) with ttl > 0 at instant `at`, and since then
\*             nothing but reads
\*   "persist" Persist(k) returned true on an entry with value `value` that had
\*             an expiry, and since then nothing but reads and Persist
\*   "persistdel"  as "persist", but with a Del, FlushAll or Rename that took
\*             the key or overwrote it since, and no Set or Expire on it
NoHist == [tag |-> "none", value |-> <<>>, ttl |-> 0, at |-> 0]

SetHist(v, ttl, t) ==
    IF ttl > 0 THEN [tag |-> "ttl", value |-> v, ttl |-> ttl, at |-> t]
               ELSE [tag |-> "noexp", value |-> v, ttl |-> 0, at |-> 0]

\* Persist(k) on entry e, after h
PersistHist(h, e) ==
    IF e.found /\ e.hasExpiry
    THEN [tag |-> "persist", value |-> e.value, ttl |-> 0, at |-> 0]
    ELSE IF h.tag = "ttl" THEN NoHist ELSE h

\* the key is removed or overwritten by something other than Set
RemoveHist(h) ==
    IF h.tag \in {"persist", "persistdel"} THEN [NoHist EXCEPT !.tag = "persistdel"]
    ELSE NoHist

ExpireHist(h) ==
    IF h.tag \in {"ttl", "persist", "persistdel"} THEN NoHist
    ELSE IF h.tag = "noexp" THEN [h EXCEPT !.tag = "expire"]
    ELSE h

----------------------------------------------------------------------------
(* Steps of the Store's callers, of the clock and of the sweeper *)

Set(k, v, ttl) ==
    /\ data' = SetData(data, now, k, v, ttl)
    /\ hist' = [hist EXCEPT ![k] = SetHist(v, ttl, now)]
    /\ UNCHANGED <<now, sweepAt, lockVars>>

Get(k) ==
    /\ data' = GetData(data, now, k)
    /\ UNCHANGED <<now, sweepAt, hist, lockVars>>

Del(k) ==
    /\ data' = DelData(data, k)
    /\ hist' = [hist EXCEPT ![k] = RemoveHist(hist[k])]
    /\ UNCHANGED <<now, sweepAt, lockVars>>

Exists(k) ==
    /\ data' = ExistsData(data, now, k)
    /\ UNCHANGED <<now, sweepAt, hist, lockVars>>

Persist(k) ==
    /\ data' = PersistData(data, k)
    /\ hist' = [hist EXCEPT ![k] = PersistHist(hist[k], data[k])]
    /\ UNCHANGED <<now, sweepAt, lockVars>>

FlushAll ==
    /\ data' = FlushAllData(data)
    /\ hist' = [k \in DOMAIN hist |-> RemoveHist(hist[k])]
    /\ UNCHANGED <<now, sweepAt, lockVars>>

Keys(p) ==
    /\ data' = KeysData(data, now)
    /\ UNCHANGED <<now, sweepAt, hist, lockVars>>

Rename(o, n) ==
    /\ data' = RenameData(data, o, n)
    /\ hist' = IF RenameRet(data, o) /\ o # n
               THEN [hist EXCEPT ![o] = RemoveHist(hist[o]), ![n] = RemoveHist(hist[n])]
               ELSE hist
    /\ UNCHANGED <<now, sweepAt, lockVars>>

TTL(k) ==
    /\ data' = TTLData(data, now, k)
    /\ UNCHANGED <<now, sweepAt, hist, lockVars>>

Expire(k, seconds) ==
    /\ data' = ExpireData(data, now, k, seconds)
    /\ hist' = [hist EXCEPT ![k] = ExpireHist(hist[k])]
    /\ UNCHANGED <<now, sweepAt, lockVars>>

\* cleanupExpiredKeys: the Sleep has ended; sweep, then Sleep again
Sweep ==
    /\ now >= sweepAt
    /\ data' = SweepData(data, now)
    /\ sweepAt' = now + SweepPeriod
    /\ UNCHANGED <<now, hist, lockVars>>
    /\ UNCHANGED connVars

\* the clock advances
Tick ==
    /\ now < MaxTime
    /\ now' = now + 1
    /\ UNCHANGED <<data, sweepAt, hist, lockVars>>
    /\ UNCHANGED connVars

\* the clock advances, with a sweeper that runs the instant its Sleep ends
TickTimed == now < sweepAt /\ Tick

\* the clock advances while the connection is followed
TickWire == now < MaxWireTime /\ Tick

\* a Store method called on behalf of some other connection
StoreCall ==
    \/ \E k \in KeySet, v \in ValueSet, ttl \in 0..MaxTTL :
           Set(k, v, ttl) /\ UNCHANGED connVars
    \/ \E k \in KeySet : Get(k) /\ UNCHANGED connVars
    \/ \E k \in KeySet : Del(k) /\ UNCHANGED connVars
    \/ \E k \in KeySet : Exists(k) /\ UNCHANGED connVars
    \/ \E k \in KeySet : Persist(k) /\ UNCHANGED connVars
    \/ FlushAll /\ UNCHANGED connVars
    \/ \E p \in PatternSet : Keys(p) /\ UNCHANGED connVars
    \/ \E o \in KeySet, n \in KeySet : Rename(o, n) /\ UNCHANGED connVars
    \/ \E k \in KeySet : TTL(k) /\ UNCHANGED connVars
    \/ \E k \in KeySet, seconds \in 0..MaxTTL :
           Expire(k, seconds) /\ UNCHANGED connVars

----------------------------------------------------------------------------
(* handleConnection: the replies *)

Reply(t, str, n, b, ks) == [t |-> t, s |-> str, n |-> n, b |-> b, ks |-> ks]

\* "-<msg>\r\n"
ErrReply(msg) == Reply("-", msg, 0, <<>>, {})
\* "-ERR unknown command '<name>'\r\n"
UnknownReply(name) == Reply("-", "ERR unknown command", 0, name, {})
\* "+<msg>\r\n"
StatusReply(msg) == Reply("+", msg, 0, <<>>, {})
\* ":<n>\r\n"
IntReply(n) == Reply(":", "", n, <<>>, {})
\* "$<len>\r\n<bytes>\r\n"
BulkReply(b) == Reply("$", "", Len(b), b, {})
\* "$-1\r\n"
NilReply == Reply("$", "", -1, <<>>, {})
\* "*<n>\r\n" and the n keys as bulk strings
ArrayReply(ks) == Reply("*", "", Cardinality(ks), <<>>, ks)

BoolReply(ok) == IF ok THEN IntReply(1) ELSE IntReply(0)

----------------------------------------------------------------------------
(* handleConnection: the decoder *)

\* `return` for the `continue` after an array header that is refused
AfterHeaderErrorReturns == "closed"

\* `continue` after an array header that is refused
AfterHeaderError == "header"

\* `continue` for the `return` after a bulk element that is refused
AfterBulkErrorContinues == "header"

\* `break` out of the element loop for the `return`: the switch is reached
AfterBulkErrorBreaks == "dispatch"

\* `return` after a bulk element that is refused
AfterBulkError == "closed"

\* the loop's first read: reader.ReadString('\n') and the array header; a new
\* iteration begins, with nothing written and no Store call made in it yet
ReadHeader ==
    /\ pc = "header"
    /\ HasLine(inbuf) \/ eof
    /\ IF ~HasLine(inbuf)
       THEN \* err != nil: break, and the deferred conn.Close()
            /\ pc' = "closed"
            /\ inbuf' = <<>>
            /\ out' = <<>>
            /\ UNCHANGED <<numArgs, args>>
       ELSE LET line == TrimSpace(ReadLine(inbuf))
                count == Atoi(Tail(line))
            IN  /\ inbuf' = AfterLine(inbuf)
                /\ IF Len(line) = 0 \/ ~HasPrefix(line, "*")
                   THEN /\ out' = <<ErrReply("ERR expected array input")>>
                        /\ pc' = AfterHeaderError
                        /\ UNCHANGED <<numArgs, args>>
                   ELSE IF count.err \/ count.n <= 0
                   THEN /\ out' = <<ErrReply("ERR invalid argument count")>>
                        /\ pc' = AfterHeaderError
                        /\ UNCHANGED <<numArgs, args>>
                   ELSE /\ numArgs' = count.n
                        /\ args' = <<>>
                        /\ pc' = "bulkhdr"
                        /\ out' = <<>>
    /\ ncalls' = 0
    /\ UNCHANGED <<eof, sent, bulkLen>>
    /\ UNCHANGED storeVars

\* the element loop: the "$<length>" line
ReadBulkHeader ==
    /\ pc = "bulkhdr"
    /\ HasLine(inbuf) \/ eof
    /\ LET failed == ~HasLine(inbuf)
           bulkLenLine == IF failed THEN inbuf ELSE ReadLine(inbuf)
           length == Atoi(TrimSpace(Tail(bulkLenLine)))
       IN  IF failed \/ ~HasPrefix(bulkLenLine, "$")
           THEN /\ out' = Append(out, ErrReply("ERR expected bulk string"))
                /\ pc' = AfterBulkError
                /\ inbuf' = IF failed THEN <<>> ELSE AfterLine(inbuf)
                /\ UNCHANGED bulkLen
           ELSE IF length.err \/ length.n < 0
           THEN /\ out' = Append(out, ErrReply("ERR invalid bulk length"))
                /\ pc' = AfterBulkError
                /\ inbuf' = AfterLine(inbuf)
                /\ UNCHANGED bulkLen
           ELSE /\ bulkLen' = length.n
                /\ pc' = "payload"
                /\ inbuf' = AfterLine(inbuf)
                /\ out' = out
    /\ UNCHANGED <<eof, sent, numArgs, args, ncalls>>
    /\ UNCHANGED storeVars

\* the element loop: io.ReadFull of bulkLen+2 bytes, and the append
ReadBulkPayload ==
    /\ pc = "payload"
    /\ Len(inbuf) >= bulkLen + 2 \/ eof
    /\ IF Len(inbuf) < bulkLen + 2
       THEN /\ out' = Append(out, ErrReply("ERR could not read bulk string"))
            /\ pc' = AfterBulkError
            /\ inbuf' = <<>>
            /\ args' = args
       ELSE /\ args' = Append(args, SubSeq(inbuf, 1, bulkLen))
            /\ inbuf' = SubSeq(inbuf, bulkLen + 3, Len(inbuf))
            /\ pc' = IF Len(args) + 1 < numArgs THEN "bulkhdr" ELSE "dispatch"
            /\ out' = out
    /\ UNCHANGED <<eof, sent, numArgs, bulkLen, ncalls>>
    /\ UNCHANGED storeVars

----------------------------------------------------------------------------
(* handleConnection: the dispatcher *)

PING == <<"P", "I", "N", "G">>
SET == <<"S", "E", "T">>
GET == <<"G", "E", "T">>
DEL == <<"D", "E", "L">>
EXISTS == <<"E", "X", "I", "S", "T", "S">>
PERSIST == <<"P", "E", "R", "S", "I", "S", "T">>
FLUSHALL == <<"F", "L", "U", "S", "H", "A", "L", "L">>
KEYS == <<"K", "E", "Y", "S">>
RENAME == <<"R", "E", "N", "A", "M", "E">>
TTLCMD == <<"T", "T", "L">>
EXPIRE == <<"E", "X", "P", "I", "R", "E">>
EX == <<"E", "X">>

\* conn.Write of the command's reply after `calls` Store calls; the iteration
\* ends, and with it the scope of numArgs, bulkLen and args
Finish(r, calls) ==
    /\ out' = Append(out, r)
    /\ ncalls' = ncalls + calls
    /\ pc' = "header"
    /\ numArgs' = 0
    /\ bulkLen' = 0
    /\ args' = <<>>
    /\ UNCHANGED <<inbuf, eof, sent>>

\* an error reply and `continue`, with no Store call
Refuse(msg) == Finish(ErrReply(msg), 0) /\ UNCHANGED storeVars

DoPing ==
    IF Len(args) = 1 THEN Finish(StatusReply("PONG"), 0) /\ UNCHANGED storeVars
    ELSE IF Len(args) = 2 THEN Finish(BulkReply(args[2]), 0) /\ UNCHANGED storeVars
    ELSE Refuse("ERR wrong number of arguments for PING")

DoSet ==
    IF Len(args) < 3 \/ Len(args) > 5
    THEN Refuse("ERR SET requires 2 arguments, optionally with EX <seconds>")
    ELSE IF Len(args) >= 4 /\ ToUpper(args[4]) = EX
    THEN IF Len(args) # 5
         THEN Refuse("ERR wrong number of arguments for SET with EX")
         ELSE IF Atoi(args[5]).err \/ Atoi(args[5]).n < 0
         THEN Refuse("ERR invalid TTL")
         ELSE Set(args[2], args[3], Atoi(args[5]).n) /\ Finish(StatusReply("OK"), 1)
    ELSE Set(args[2], args[3], 0) /\ Finish(StatusReply("OK"), 1)

DoGet ==
    IF Len(args) # 2 THEN Refuse("ERR GET needs 1 argument")
    ELSE /\ Get(args[2])
         /\ Finish(IF GetRet(data, now, args[2])[2]
                   THEN BulkReply(GetRet(data, now, args[2])[1])
                   ELSE NilReply, 1)

DoDel ==
    IF Len(args) # 2 THEN Refuse("ERR DEL needs 1 argument")
    ELSE Del(args[2]) /\ Finish(BoolReply(DelRet(data, args[2])), 1)

DoExists ==
    IF Len(args) # 2 THEN Refuse("ERR EXISTS needs 1 argument")
    ELSE Exists(args[2]) /\ Finish(BoolReply(ExistsRet(data, now, args[2])), 1)

DoPersist ==
    IF Len(args) # 2 THEN Refuse("ERR PERSIST needs 1 argument")
    ELSE Persist(args[2]) /\ Finish(BoolReply(PersistRet(data, args[2])), 1)

DoFlushAll == FlushAll /\ Finish(StatusReply("OK"), 1)

DoKeys ==
    IF Len(args) # 2 THEN Refuse("ERR KEYS needs 1 argument")
    ELSE Keys(args[2]) /\ Finish(ArrayReply(KeysRet(data, now, args[2])), 1)

\* RENAME up to the return of store.Exists: the move is a second Store call
DoRename ==
    IF Len(args) # 3 THEN Refuse("ERR RENAME needs 2 arguments")
    ELSE /\ Exists(args[2])
         /\ IF ~ExistsRet(data, now, args[2])
            THEN Finish(ErrReply("ERR no such key"), 1)
            ELSE /\ pc' = "rename"
                 /\ ncalls' = ncalls + 1
                 /\ UNCHANGED <<inbuf, eof, sent, numArgs, bulkLen, args, out>>

DoTTL ==
    IF Len(args) # 2 THEN Refuse("ERR TTL needs 1 argument")
    ELSE TTL(args[2]) /\ Finish(IntReply(TTLRet(data, now, args[2])), 1)

DoExpire ==
    IF Len(args) # 3 THEN Refuse("ERR EXPIRE needs 2 arguments")
    ELSE IF Atoi(args[3]).err \/ Atoi(args[3]).n < 0 THEN Refuse("ERR invalid TTL")
    ELSE /\ Expire(args[2], Atoi(args[3]).n)
         /\ Finish(BoolReply(ExpireRet(data, args[2])), 1)

DoUnknown == Finish(UnknownReply(args[1]), 0) /\ UNCHANGED storeVars

\* the switch on strings.ToUpper(args[0])
Dispatch ==
    /\ pc = "dispatch"
    /\ IF Len(args) = 0 THEN Refuse("ERR no command received")
       ELSE LET command == ToUpper(args[1])
            IN  CASE command = PING -> DoPing
                  [] command = SET -> DoSet
                  [] command = GET -> DoGet
                  [] command = DEL -> DoDel
                  [] command = EXISTS -> DoExists
                  [] command = PERSIST -> DoPersist
                  [] command = FLUSHALL -> DoFlushAll
                  [] command = KEYS -> DoKeys
                  [] command = RENAME -> DoRename
                  [] command = TTLCMD -> DoTTL
                  [] command = EXPIRE -> DoExpire
                  [] OTHER -> DoUnknown

\* RENAME after store.Exists has returned true: store.Rename and "+OK"
RenameMove ==
    /\ pc = "rename"
    /\ Rename(args[2], args[3])
    /\ Finish(StatusReply("OK"), 1)

----------------------------------------------------------------------------
(* The client of the connection: what it sends *)

CRLF == <<CR, LF>>

\* a length or count below ten, in decimal
Dec(n) == <<Digits[n + 1]>>

\* one bulk string, as a client encodes it
BulkOf(a) == <<"$">> \o Dec(Len(a)) \o CRLF \o a \o CRLF

RECURSIVE BulksOf(_)
BulksOf(as) == IF as = <<>> THEN <<>> ELSE BulkOf(Head(as)) \o BulksOf(Tail(as))

\* one frame, as a client encodes it
FrameOf(as) == <<"*">> \o Dec(Len(as)) \o CRLF \o BulksOf(as)

ValX == <<"x">>
ValY == <<"y">>
One == <<"1">>
Zero == <<"0">>
Junk == <<"z">>
MinusOne == <<"-", "1">>

\* commands with the argument counts of the command table
GoodCommands ==
    { <<SET, KeyA, ValX>>, <<SET, KeyA, ValY, EX, One>>, <<SET, KeyA, ValX, EX, Zero>>,
      <<<<"s", "e", "t">>, KeyB, ValX, <<"e", "x">>, One>>,
      <<GET, KeyA>>, <<DEL, KeyA>>, <<EXISTS, KeyA>>, <<PERSIST, KeyA>>,
      <<FLUSHALL>>, <<KEYS, <<"*">>>>, <<RENAME, KeyA, KeyB>>, <<TTLCMD, KeyA>>,
      <<EXPIRE, KeyA, One>>, <<PING>>, <<PING, ValX>> }

\* commands with other argument counts
BadArityCommands ==
    { <<PING, ValX, ValY>>, <<SET, KeyA>>, <<SET, KeyA, ValX, ValY>>,
      <<SET, KeyA, ValX, EX>>, <<SET, KeyA, ValX, EX, One, One>>,
      <<GET>>, <<GET, KeyA, KeyB>>, <<DEL>>, <<EXISTS>>, <<PERSIST>>, <<KEYS>>,
      <<TTLCMD>>, <<RENAME, KeyA>>, <<EXPIRE, KeyA>>, <<FLUSHALL, ValX>> }

\* commands with the right argument count and an argument that is refused, and
\* a command that does not exist
BadArgumentCommands ==
    { <<SET, KeyA, ValY, <<"P", "X">>, One>>, <<SET, KeyA, ValY, EX, Junk>>,
      <<SET, KeyA, ValY, EX, MinusOne>>, <<EXPIRE, KeyA, Junk>>,
      <<EXPIRE, KeyA, MinusOne>>, <<<<"F", "O", "O">>>> }

\* input that is no frame
BadFrames ==
    { <<"*", "2">> \o CRLF \o <<"$", "a", "b", "c">> \o CRLF,
      <<"*", "1">> \o CRLF \o <<"#", "4">> \o CRLF,
      <<"*", "1">> \o CRLF \o <<"$", "-", "1">> \o CRLF,
      <<"*", "1">> \o CRLF \o <<"$", "4">> \o CRLF \o <<"P", "I">>,
      <<"*", "4">> \o CRLF \o BulksOf(<<SET, KeyA, ValX>>) \o <<"$", "a", "b", "c">> \o CRLF,
      <<"*", "0">> \o CRLF,
      <<"*", "-", "1">> \o CRLF,
      <<"*", "x">> \o CRLF,
      <<"*">> \o CRLF,
      PING \o CRLF,
      CRLF,
      <<"*", "1">>,
      <<"*", "0">> \o CRLF \o FrameOf(<<SET, KeyB, ValY>>),
      <<"G", "E", "T">> \o CRLF \o FrameOf(<<SET, KeyB, ValY>>) }

\* the pieces of input a client sends
Chunks ==
    {FrameOf(as) : as \in GoodCommands \cup BadArityCommands \cup BadArgumentCommands}
        \cup BadFrames

\* the reader has used up what it received and waits for more
Blocked ==
    \/ pc \in {"header", "bulkhdr"} /\ ~HasLine(inbuf)
    \/ pc = "payload" /\ Len(inbuf) < bulkLen + 2

\* the client writes to the connection, once what it wrote before has been read
ClientSend(c) ==
    /\ sent < MaxSends
    /\ ~eof
    /\ pc # "closed"
    /\ inbuf = <<>>
    /\ inbuf' = c
    /\ sent' = sent + 1
    /\ UNCHANGED <<eof, pc, numArgs, bulkLen, args, out, ncalls>>
    /\ UNCHANGED storeVars

\* the client closes its side of the connection; the reader meets the end of
\* the stream only where it waits for more, so the close is taken there
ClientClose ==
    /\ ~eof
    /\ Blocked
    /\ eof' = TRUE
    /\ UNCHANGED <<inbuf, sent, pc, numArgs, bulkLen, args, out, ncalls>>
    /\ UNCHANGED storeVars

----------------------------------------------------------------------------
(* Store.mu: the Store methods and the sweeper step by step.  A context is *)
(* a connection's goroutine or the sweeper's; a connection is "idle"       *)
(* outside the Store, "locked" once s.mu.Lock() has returned, "range"      *)
(* inside the loop of Keys, "return" when the body is done and the         *)
(* deferred s.mu.Unlock() is still to run, and "write" when the method has *)
(* returned and the reply is to be written.  The sweeper is in "sleep" or  *)
(* in "range".                                                             *)

Conns == {"c1", "c2"}
Sweeper == "sweeper"
Free == "free"

\* no map iteration is in progress
NoScan == [todo |-> {}, p |-> <<>>, acc |-> {}, t |-> 0,
           snap |-> [k \in KeySet |-> NoEntry]]

\* range s.data begins at instant t: the keys of the map are still to be visited
NewScan(p, t) ==
    [todo |-> {k \in KeySet : data[k].found}, p |-> p, acc |-> {}, t |-> t, snap |-> data]

\* a mutex that lets every caller in
AvailableAlways(m) == TRUE

\* s.mu.Lock() returns only when no context holds s.mu
Available(m) == m = Free

\* the context is inside a Store method body or a sweep
Inside(c) == at[c] \in {"locked", "range", "return"}

\* s.mu.Lock() at the top of a Store method
Lock(c) ==
    /\ at[c] = "idle"
    /\ Available(mu)
    /\ mu' = c
    /\ at' = [at EXCEPT ![c] = "locked"]
    /\ UNCHANGED <<data, now, sweepAt, hist, scan>>
    /\ UNCHANGED connVars

\* the end of a method body: the return statement is reached
Returns(c) ==
    /\ at' = [at EXCEPT ![c] = "return"]
    /\ UNCHANGED <<now, sweepAt, hist, mu, scan>>
    /\ UNCHANGED connVars

LockedSet(c) ==
    /\ at[c] = "locked"
    /\ \E k \in KeySet, v \in ValueSet, ttl \in 0..MaxTTL :
          data' = SetData(data, now, k, v, ttl)
    /\ Returns(c)

LockedGet(c) ==
    /\ at[c] = "locked"
    /\ \E k \in KeySet : data' = GetData(data, now, k)
    /\ Returns(c)

LockedDel(c) ==
    /\ at[c] = "locked"
    /\ \E k \in KeySet : data' = DelData(data, k)
    /\ Returns(c)

LockedExists(c) ==
    /\ at[c] = "locked"
    /\ \E k \in KeySet : data' = ExistsData(data, now, k)
    /\ Returns(c)

LockedPersist(c) ==
    /\ at[c] = "locked"
    /\ \E k \in KeySet : data' = PersistData(data, k)
    /\ Returns(c)

LockedFlushAll(c) ==
    /\ at[c] = "locked"
    /\ data' = FlushAllData(data)
    /\ Returns(c)

LockedRename(c) ==
    /\ at[c] = "locked"
    /\ \E o \in KeySet, n \in KeySet : data' = RenameData(data, o, n)
    /\ Returns(c)

LockedTTL(c) ==
    /\ at[c] = "locked"
    /\ \E k \in KeySet : data' = TTLData(data, now, k)
    /\ Returns(c)

LockedExpire(c) ==
    /\ at[c] = "locked"
    /\ \E k \in KeySet, seconds \in 0..MaxTTL : data' = ExpireData(data, now, k, seconds)
    /\ Returns(c)

\* Keys: `for k, v := range s.data` begins
KeysRange(c) ==
    /\ at[c] = "locked"
    /\ \E p \in PatternSet : scan' = NewScan(p, now)
    /\ at' = [at EXCEPT ![c] = "range"]
    /\ UNCHANGED <<data, now, sweepAt, hist, mu>>
    /\ UNCHANGED connVars

\* Keys: one pass of the loop, on a key not visited yet, with its own time.Now()
KeysVisit(c) ==
    /\ at[c] = "range"
    /\ \E k \in scan.todo :
          IF Expired(data[k], now)
          THEN /\ data' = Delete(data, k)
               /\ scan' = [scan EXCEPT !.todo = @ \ {k}]
          ELSE /\ data' = data
               /\ scan' = [scan EXCEPT !.todo = @ \ {k},
                                       !.acc = IF Match(scan.p, k) THEN @ \cup {k} ELSE @]
    /\ UNCHANGED <<now, sweepAt, hist, mu, at>>
    /\ UNCHANGED connVars

\* Keys: the loop is over, `return matching`
KeysReturn(c) ==
    /\ at[c] = "range"
    /\ scan.todo = {}
    /\ scan' = NoScan
    /\ at' = [at EXCEPT ![c] = "return"]
    /\ UNCHANGED <<data, now, sweepAt, hist, mu>>
    /\ UNCHANGED connVars

\* the deferred s.mu.Unlock(), as the method returns
Unlock(c) ==
    /\ at[c] = "return"
    /\ mu' = Free
    /\ at' = [at EXCEPT ![c] = "write"]
    /\ UNCHANGED <<data, now, sweepAt, hist, scan>>
    /\ UNCHANGED connVars

\* handleConnection, back from the Store: conn.Write of the reply and the read
\* of the next command
WriteReply(c) ==
    /\ at[c] = "write"
    /\ at' = [at EXCEPT ![c] = "idle"]
    /\ UNCHANGED <<data, now, sweepAt, hist, mu, scan>>
    /\ UNCHANGED connVars

\* cleanupExpiredKeys: the Sleep is over; s.mu.Lock(), now := time.Now() and
\* the beginning of the loop
SweepLock ==
    /\ at[Sweeper] = "sleep"
    /\ now >= sweepAt
    /\ Available(mu)
    /\ mu' = Sweeper
    /\ scan' = NewScan(<<>>, now)
    /\ at' = [at EXCEPT ![Sweeper] = "range"]
    /\ UNCHANGED <<data, now, sweepAt, hist>>
    /\ UNCHANGED connVars

\* cleanupExpiredKeys: one pass of the loop, on a key not visited yet
SweepVisit ==
    /\ at[Sweeper] = "range"
    /\ \E k \in scan.todo :
          /\ data' = IF data[k].hasExpiry /\ After(scan.t, data[k].expiresAt)
                     THEN Delete(data, k) ELSE data
          /\ scan' = [scan EXCEPT !.todo = @ \ {k}]
    /\ UNCHANGED <<now, sweepAt, hist, mu, at>>
    /\ UNCHANGED connVars

\* cleanupExpiredKeys: s.mu.Unlock(), and the next Sleep
SweepUnlock ==
    /\ at[Sweeper] = "range"
    /\ scan.todo = {}
    /\ mu' = Free
    /\ scan' = NoScan
    /\ at' = [at EXCEPT ![Sweeper] = "sleep"]
    /\ sweepAt' = now + SweepPeriod
    /\ UNCHANGED <<data, now, hist>>
    /\ UNCHANGED connVars

----------------------------------------------------------------------------
(* The server *)

\* NewStore: an empty map, and the sweeper started and asleep; a connection
\* accepted, with nothing received
Init ==
    /\ data = [k \in KeySet |-> NoEntry]
    /\ now = 0
    /\ sweepAt = SweepPeriod
    /\ hist = [k \in KeySet |-> NoHist]
    /\ inbuf = <<>>
    /\ eof = FALSE
    /\ sent = 0
    /\ pc = "header"
    /\ numArgs = 0
    /\ bulkLen = 0
    /\ args = <<>>
    /\ out = <<>>
    /\ ncalls = 0
    /\ mu = Free
    /\ at = [c \in Conns \cup {Sweeper} |-> IF c = Sweeper THEN "sleep" ELSE "idle"]
    /\ scan = NoScan

\* the Store under the calls of its clients, the clock and the sweeper
Next == StoreCall \/ Sweep \/ Tick

Spec == Init /\ [][Next]_vars

NextTimed == StoreCall \/ Sweep \/ TickTimed

\* the sweeper is scheduled as soon as its Sleep ends
SpecTimed == Init /\ [][NextTimed]_vars

\* one connection, from the bytes it receives to the replies it writes
NextWire ==
    \/ \E c \in Chunks : ClientSend(c)
    \/ ClientClose
    \/ ReadHeader
    \/ ReadBulkHeader
    \/ ReadBulkPayload
    \/ Dispatch
    \/ RenameMove
    \/ Sweep
    \/ TickWire

SpecWire == Init /\ [][NextWire]_vars

\* the Store methods and the sweeper, with s.mu taken and released in steps
NextLock ==
    \/ \E c \in Conns : Lock(c)
    \/ \E c \in Conns : LockedSet(c)
    \/ \E c \in Conns : LockedGet(c)
    \/ \E c \in Conns : LockedDel(c)
    \/ \E c \in Conns : LockedExists(c)
    \/ \E c \in Conns : LockedPersist(c)
    \/ \E c \in Conns : LockedFlushAll(c)
    \/ \E c \in Conns : LockedRename(c)
    \/ \E c \in Conns : LockedTTL(c)
    \/ \E c \in Conns : LockedExpire(c)
    \/ \E c \in Conns : KeysRange(c)
    \/ \E c \in Conns : KeysVisit(c)
    \/ \E c \in Conns : KeysReturn(c)
    \/ \E c \in Conns : Unlock(c)
    \/ \E c \in Conns : WriteReply(c)
    \/ SweepLock
    \/ SweepVisit
    \/ SweepUnlock
    \/ TickWire

SpecLock == Init /\ [][NextLock]_vars

----------------------------------------------------------------------------
(* Properties of the Store *)

\* floor of a number of ticks in whole seconds (toward minus infinity)
FloorSeconds(n) == n \div TicksPerSec

\* the instant at which the Set followed by hist[k] expires
Deadline(k) == hist[k].at + hist[k].ttl * TicksPerSec

\* C1, as stated: after Set(k, v, 0), Get(k) returns (v, true) for as long as no
\* Del(k), FlushAll, Rename away from k or overwrite of k occurs (an Expire(k, _)
\* in between is not excluded).
C1_GetUntilDelFlushRenameOverwrite ==
    \A k \in KeySet :
        hist[k].tag \in {"noexp", "expire"}
            => GetRet(data, now, k) = <<hist[k].value, TRUE>>

\* C1, amended: after Set(k, v, 0), Get(k) returns (v, true) at any later time and
\* after any number of sweeps, for as long as no Del(k), FlushAll, Rename away
\* from k, overwrite of k (Set or Rename onto k) or Expire(k, _) occurs.
C1_GetUntilDelFlushRenameOverwriteExpire ==
    \A k \in KeySet :
        hist[k].tag = "noexp" => GetRet(data, now, k) = <<hist[k].value, TRUE>>

\* a key Set without expiry is still read back when the clock has run out and
\* the sweeper has swept
C1_Witness ==
    \E k \in KeySet :
        /\ hist[k].tag = "noexp"
        /\ now = MaxTime
        /\ sweepAt > SweepPeriod
        /\ GetRet(data, now, k) = <<hist[k].value, TRUE>>

\* C2: an entry whose expiry has passed is absent for every read path: Get finds
\* nothing, Exists is false, TTL is -2 and Keys(p) leaves it out, for every p.
C2_ExpiredIsAbsentOnEveryReadPath ==
    \A k \in KeySet :
        (data[k].found /\ data[k].hasExpiry /\ data[k].expiresAt < now)
            => /\ GetRet(data, now, k)[2] = FALSE
               /\ ExistsRet(data, now, k) = FALSE
               /\ TTLRet(data, now, k) = -2
               /\ \A p \in PatternSet : k \notin KeysRet(data, now, p)

\* C3: with nothing but reads on k since Set(k, v, ttl), ttl > 0: Get(k) returns
\* (v, true) strictly before ttl seconds have elapsed, and found = false later
\* than ttl seconds plus one sweep period after the Set.
C3_LiveBeforeTtlGoneAfterTtlPlusSweep ==
    \A k \in KeySet :
        hist[k].tag = "ttl"
            => /\ now < Deadline(k) => GetRet(data, now, k) = <<hist[k].value, TRUE>>
               /\ now > Deadline(k) + SweepPeriod => GetRet(data, now, k)[2] = FALSE

\* one key is read back just before its ttl elapses while another, set earlier and
\* not yet swept, is past its ttl plus a sweep period and is not found
C3_Witness ==
    \E k \in KeySet, j \in KeySet :
        /\ hist[k].tag = "ttl" /\ now = Deadline(k) - 1
        /\ GetRet(data, now, k) = <<hist[k].value, TRUE>>
        /\ hist[j].tag = "ttl" /\ now > Deadline(j) + SweepPeriod
        /\ data[j].found
        /\ GetRet(data, now, j)[2] = FALSE

\* no entry stays in the map for more than a sweep period after its expiry
SweptWithinPeriod ==
    \A k \in KeySet :
        (data[k].found /\ data[k].hasExpiry) => now - data[k].expiresAt <= SweepPeriod

\* a sweep leaves no entry whose expiry is before its `now`, and changes no other
SweepRemovesExactlyExpired ==
    Sweep =>
        \A k \in KeySet :
            /\ ~(data'[k].found /\ data'[k].hasExpiry /\ data'[k].expiresAt < now)
            /\ ~(data[k].hasExpiry /\ data[k].expiresAt < now) => data'[k] = data[k]

\* C4: with the sweeper run as soon as its Sleep ends, an entry is removed within
\* one sweep period of its expiry, reads or no reads; and a sweep removes every
\* entry whose expiry is before the sweep's now and leaves the others unchanged.
C4_ActiveExpiry == []SweptWithinPeriod /\ [][SweepRemovesExactlyExpired]_vars

\* an unread entry a whole sweep period past its expiry, which the sweep now due
\* removes
C4_Witness ==
    \E k \in KeySet :
        /\ data[k].found /\ data[k].hasExpiry
        /\ now - data[k].expiresAt = SweepPeriod
        /\ now >= sweepAt
        /\ ~SweepData(data, now)[k].found

\* TTL as specified: -2 if absent, -1 without expiry, else the floor of the
\* remaining seconds, and -2 when that floor is negative
TTLSpecRet(k) ==
    IF ~data[k].found THEN -2
    ELSE IF ~data[k].hasExpiry THEN -1
    ELSE IF FloorSeconds(data[k].expiresAt - now) < 0 THEN -2
    ELSE FloorSeconds(data[k].expiresAt - now)

\* TTL as specified: the key is removed exactly when the floor is negative
TTLSpecData(k) ==
    IF data[k].found /\ data[k].hasExpiry /\ FloorSeconds(data[k].expiresAt - now) < 0
    THEN Delete(data, k) ELSE data

\* C5: TTL(k) returns -2 for an absent key, -1 for a key without expiry, else
\* floor(expiresAt - now) in seconds; when the floor is negative (now later than
\* expiresAt by any amount) the key is removed and -2 returned; otherwise the map
\* is unchanged.
C5_TTLIsFlooredRemaining ==
    \A k \in KeySet :
        /\ TTLRet(data, now, k) = TTLSpecRet(k)
        /\ TTLData(data, now, k) = TTLSpecData(k)

----------------------------------------------------------------------------
(* Properties of the decoder and the dispatcher *)

\* the step is one of handleConnection's, not the client's, the clock's or the
\* sweeper's
ConnStep == sent' = sent /\ eof' = eof /\ now' = now /\ sweepAt' = sweepAt

\* the switch runs on the decoded command
DispatchStep == pc = "dispatch" /\ ConnStep

\* the decoder reads
DecodeStep == pc \in {"header", "bulkhdr", "payload"} /\ ConnStep

\* exactly one reply was written in the iteration, an error
OneErrorReply(o) == Len(o) = 1 /\ o[1].t = "-"

\* the argument counts of the command table
ArityOf(command) ==
    CASE command = PING -> {1, 2}
      [] command = SET -> {3, 5}
      [] command \in {GET, DEL, EXISTS, PERSIST, KEYS, TTLCMD} -> {2}
      [] command \in {RENAME, EXPIRE} -> {3}
      [] command = FLUSHALL -> {1}
      [] OTHER -> {}

Listed(command) == ArityOf(command) # {}

\* C6: a command of the table sent with an argument count that the table does not
\* list gets exactly one error reply, and the Store is left unchanged (FLUSHALL
\* with extra arguments and SET with 4 arguments included).
C6_WrongArityIsRefused ==
    [][(/\ DispatchStep
        /\ Len(args) > 0
        /\ Listed(ToUpper(args[1]))
        /\ Len(args) \notin ArityOf(ToUpper(args[1])))
           => (OneErrorReply(out') /\ data' = data)]_vars

\* a SET of 5 arguments whose 4th is not EX, or whose 5th is no number or negative
MalformedSetClause(as) ==
    /\ Len(as) = 5
    /\ ToUpper(as[1]) = SET
    /\ \/ ToUpper(as[4]) # EX
       \/ Atoi(as[5]).err
       \/ Atoi(as[5]).n < 0

\* C7: a 5-argument SET with a malformed optional clause gets a single error
\* reply, the connection stays open, and the Store is untouched.
C7_MalformedSetClauseIsRefused ==
    [][(DispatchStep /\ MalformedSetClause(args))
           => (OneErrorReply(out') /\ pc' = "header" /\ data' = data)]_vars

\* the element the decoder is about to read is malformed: a header line that
\* cannot be read or does not start with '$', a length that is no number or is
\* negative, or a payload cut short
BulkMalformed ==
    \/ /\ pc = "bulkhdr"
       /\ HasLine(inbuf)
       /\ \/ ~HasPrefix(ReadLine(inbuf), "$")
          \/ Atoi(TrimSpace(Tail(ReadLine(inbuf)))).err
          \/ Atoi(TrimSpace(Tail(ReadLine(inbuf)))).n < 0
    \/ pc = "bulkhdr" /\ ~HasLine(inbuf) /\ eof
    \/ pc = "payload" /\ Len(inbuf) < bulkLen + 2 /\ eof

C9_NoPartialDispatch ==
    /\ [][ncalls' > ncalls
            => (pc \in {"dispatch", "rename"} /\ numArgs > 0 /\ Len(args) = numArgs)]_vars
    /\ [][(ConnStep /\ data' # data) => ncalls' > ncalls]_vars
    /\ [][pc = "closed" => (pc' = "closed" /\ ncalls' = ncalls)]_vars

\* a SET of which three of the four announced elements were decoded was closed
\* on the fourth, and no Store method was called for it
C9_Witness ==
    /\ pc = "closed"
    /\ numArgs = 4
    /\ args = <<SET, KeyA, ValX>>
    /\ ncalls = 0
    /\ ~data[KeyA].found

\* the line read as an array header, trimmed
HeaderLine == TrimSpace(ReadLine(inbuf))

\* the header's count is missing, zero, negative or no number
BadCount ==
    /\ pc = "header"
    /\ HasLine(inbuf)
    /\ HasPrefix(HeaderLine, "*")
    /\ Atoi(Tail(HeaderLine)).err \/ Atoi(Tail(HeaderLine)).n <= 0

\* the line is empty or does not start with '*'
NotArray == pc = "header" /\ HasLine(inbuf) /\ ~HasPrefix(HeaderLine, "*")

\* the header line cannot be read
HeaderReadFails == pc = "header" /\ ~HasLine(inbuf) /\ eof

\* one error reply, no Store call, and the next line is read as a header
Resumes ==
    /\ OneErrorReply(out')
    /\ ncalls' = 0
    /\ data' = data
    /\ pc' = "header"
    /\ inbuf' = AfterLine(inbuf)

----------------------------------------------------------------------------
(* Properties of RENAME on the wire *)

\* the last reply written in the iteration
LastReply(o) == o[Len(o)]

\* the step of RENAME that calls store.Rename and writes the reply
RenameMoveStep == pc = "rename" /\ ConnStep

\* C11: under any interleaving with the clock and the sweeper, RENAME old new
\* replies with an error whenever old is not live at the moment of the move, and
\* replies +OK only if the entry of old was moved to new (new then holds old's
\* value and expiry, and old is detached).
C11_RenameRepliesOKOnlyIfMoved ==
    [][RenameMoveStep
         => /\ ~ExistsRet(data, now, args[2]) => LastReply(out').t = "-"
            /\ LastReply(out') = StatusReply("OK")
                 => /\ data[args[2]].found
                    /\ data'[args[3]] = data[args[2]]
                    /\ args[2] # args[3] => ~data'[args[2]].found]_vars

----------------------------------------------------------------------------
(* Properties of Persist, Del, Keys, Expire, Set and Rename *)

\* Persist(k) on an absent key returns false and changes nothing; on an entry
\* with an expiry it returns true and keeps the value
PersistItself ==
    \A k \in KeySet :
        /\ ~data[k].found => (~PersistRet(data, k) /\ PersistData(data, k) = data)
        /\ (data[k].found /\ data[k].hasExpiry)
             => /\ PersistRet(data, k)
                /\ PersistData(data, k)[k].value = data[k].value

\* the key reads as the value it had when it was persisted, without expiry
ReadsAsPersisted(k) ==
    /\ GetRet(data, now, k) = <<hist[k].value, TRUE>>
    /\ TTLRet(data, now, k) = -1

\* C13, as stated: after Persist(k) returned true on a key with an active expiry,
\* the value is unchanged, TTL(k) is -1 and Get(k) keeps returning the value,
\* until an Expire(k, _) or a Set(k, _, _) is performed (a Del(k), FlushAll or
\* Rename in between is not excluded); Persist on an absent key returns false
\* and changes nothing.
C13_PersistedUntilExpireOrSet ==
    /\ PersistItself
    /\ \A k \in KeySet : hist[k].tag = "persist" => ReadsAsPersisted(k)
    /\ \A k \in KeySet :
           hist[k].tag = "persistdel"
               => (GetRet(data, now, k)[2] /\ TTLRet(data, now, k) = -1)

\* C13, amended: after Persist(k) returned true on a key with an active expiry,
\* the value is unchanged, TTL(k) is -1 and Get(k) keeps returning the value
\* across any passage of time and any number of sweeps, until an Expire(k, _), a
\* Set(k, _, _), a Del(k), a FlushAll or a Rename from or onto k is performed;
\* Persist on an absent key returns false and changes nothing.
C13_PersistedUntilExpireSetDelFlushRename ==
    /\ PersistItself
    /\ \A k \in KeySet : hist[k].tag = "persist" => ReadsAsPersisted(k)

\* a persisted key is read back after its former expiry has passed and a sweep
\* has run since
C13_Witness ==
    \E k \in KeySet :
        /\ hist[k].tag = "persist"
        /\ now > data[k].expiresAt
        /\ sweepAt - SweepPeriod > data[k].expiresAt
        /\ ReadsAsPersisted(k)

\* the entry of k is in the map, live or expired and not yet removed
Present(d, k) == d[k].found

\* every key but those of ks has the same entry in d and e
SameExcept(d, e, ks) == \A j \in KeySet \ ks : d[j] = e[j]

\* no call other than Set(k, _, _) and Rename(_, k) puts k into a map d that
\* lacks it
AbsentStaysAbsent(d, k) ==
    /\ \A j \in KeySet :
          /\ ~GetData(d, now, j)[k].found
          /\ ~DelData(d, j)[k].found
          /\ ~ExistsData(d, now, j)[k].found
          /\ ~PersistData(d, j)[k].found
          /\ ~TTLData(d, now, j)[k].found
          /\ \A seconds \in 0..MaxTTL : ~ExpireData(d, now, j, seconds)[k].found
          /\ \A v \in ValueSet, ttl \in 0..MaxTTL :
                j # k => ~SetData(d, now, j, v, ttl)[k].found
          /\ \A n \in KeySet \ {k} : ~RenameData(d, j, n)[k].found
    /\ ~FlushAllData(d)[k].found
    /\ ~KeysData(d, now)[k].found
    /\ ~SweepData(d, now)[k].found

\* C14: Del(k) returns true iff k is in the map (live or expired and unswept) and
\* then removes exactly k; on an absent key it returns false and leaves the
\* Store unchanged; a second Del(k), with no Set or Rename onto k in between,
\* returns false.
C14_DelRemovesExactlyThePresentKey ==
    \A k \in KeySet :
        /\ DelRet(data, k) <=> Present(data, k)
        /\ Present(data, k)
             => /\ ~Present(DelData(data, k), k)
                /\ SameExcept(DelData(data, k), data, {k})
                /\ ~DelRet(DelData(data, k), k)
        /\ ~Present(data, k)
             => /\ DelData(data, k) = data
                /\ AbsentStaysAbsent(data, k)

\* Del on an expired entry that no read and no sweep has removed yet, next to a
\* live entry that it leaves alone
C14_Witness ==
    \E k \in KeySet, j \in KeySet :
        /\ Present(data, k) /\ Expired(data[k], now)
        /\ j # k /\ Present(data, j) /\ ~Expired(data[j], now)
        /\ DelRet(data, k)
        /\ ~Present(DelData(data, k), k)
        /\ DelData(data, k)[j] = data[j]

\* the keys in the map whose expiry is unset or has not passed
LiveKeys(d, t) == {k \in KeySet : d[k].found /\ ~Expired(d[k], t)}

\* k is prefix followed by exactly one character
OneCharAfter(prefix, k) ==
    Len(k) = Len(prefix) + 1 /\ SubSeq(k, 1, Len(prefix)) = prefix

\* C15: Keys("*") returns exactly the live keys, whatever characters a key is
\* made of; Keys of a prefix followed by "?" (as "user:?") returns exactly the
\* live keys made of the prefix and one more character; Keys removes every
\* expired key and changes no live entry.
C15_KeysReturnsExactlyTheLiveMatches ==
    /\ KeysRet(data, now, <<"*">>) = LiveKeys(data, now)
    /\ KeysRet(data, now, <<"b", "?">>)
         = {k \in LiveKeys(data, now) : OneCharAfter(<<"b">>, k)}
    /\ \A k \in KeySet :
          KeysData(data, now)[k]
            = IF k \in LiveKeys(data, now) THEN data[k] ELSE NoEntry

\* the instants from t on that the clock of the model reaches
From(t) == t..MaxTime

\* C16: after Expire(k, 0) returned true on an existing key, the next Get(k) or
\* Exists(k), however soon it runs (with no time elapsed on the clock included),
\* reports k as absent and removes it.
C16_ExpireZeroIsGoneOnNextCheck ==
    \A k \in KeySet :
        Present(data, k)
            => /\ ExpireRet(data, k)
               /\ \A t \in From(now) :
                     LET d == ExpireData(data, now, k, 0)
                     IN  /\ ~GetRet(d, t, k)[2]
                         /\ ~Present(GetData(d, t, k), k)
                         /\ ~ExistsRet(d, t, k)
                         /\ ~Present(ExistsData(d, t, k), k)

\* the ttlSeconds a caller may pass, -1 standing for the negative ones
TtlArguments == -1..MaxTTL

\* what Set(k, v, t) at the present instant leaves: a new entry for k, without
\* expiry for t <= 0 and expiring t seconds from now for t > 0, and every other
\* key as it was; without expiry the key is read back at every later instant,
\* with TTL -1, and no sweep removes it
SetReplacesEntry ==
    \A k \in KeySet, v \in ValueSet, t \in TtlArguments :
        LET d == SetData(data, now, k, v, t)
        IN  /\ SameExcept(d, data, {k})
            /\ t <= 0 => /\ d[k] = NewEntry(v, ZeroTime, FALSE)
                         /\ \A u \in From(now) :
                               /\ TTLRet(d, u, k) = -1
                               /\ GetRet(d, u, k) = <<v, TRUE>>
                               /\ SweepData(d, u)[k] = d[k]
            /\ t > 0 => d[k] = NewEntry(v, now + t * TicksPerSec, TRUE)

\* the wire command SET k v EX 0
SetExZero(as) == Len(as) = 5 /\ ToUpper(as[1]) = SET /\ ToUpper(as[4]) = EX /\ as[5] = Zero

\* C17: Set(k, v, t) replaces the whole entry of k and leaves every other key
\* unchanged; with t <= 0 (SET k v EX 0 on the wire included) the entry has no
\* expiry, TTL(k) is -1 and k never expires, whatever expiry k had before; with
\* t > 0 the new expiry is exactly now + t seconds.  (Set is tried on the Store
\* as every command finds it, and SET k v EX 0 is followed through the switch.)
C17_SetReplacesTheWholeEntry ==
    /\ [](pc = "dispatch" => SetReplacesEntry)
    /\ [][(DispatchStep /\ SetExZero(args))
            => /\ data'[args[2]] = NewEntry(args[3], ZeroTime, FALSE)
               /\ SameExcept(data', data, {args[2]})
               /\ out' = <<StatusReply("OK")>>]_vars

\* SET a x EX 0 is about to overwrite an entry of a that has an expiry
C17_Witness ==
    /\ pc = "dispatch"
    /\ SetExZero(args)
    /\ data[args[2]].found /\ data[args[2]].hasExpiry
    /\ SetData(data, now, args[2], args[3], 0)[args[2]] = NewEntry(args[3], ZeroTime, FALSE)

AcceptedSeconds == 1..MaxInt

\* C19: for every positive seconds that the dispatcher accepts for SET ... EX
\* seconds or EXPIRE key seconds, the stored expiry is now + seconds and so
\* strictly in the future: the duration never wraps around.
C19_ExpiryOfAcceptedSecondsIsInTheFuture ==
    \A k \in KeySet, seconds \in AcceptedSeconds :
        /\ \A v \in ValueSet :
              LET e == SetData(data, now, k, v, seconds)[k]
              IN  /\ e.hasExpiry
                  /\ e.expiresAt = now + seconds * TicksPerSec
                  /\ e.expiresAt > now
        /\ Present(data, k)
             => LET e == ExpireData(data, now, k, seconds)[k]
                IN  /\ e.hasExpiry
                    /\ e.expiresAt = now + seconds * TicksPerSec
                    /\ e.expiresAt > now

\* the map as a sweep at the present instant would leave it
Swept == SweepData(data, now)

\* C20: the sweep is invisible to clients: every command gets the same reply
\* whether or not a sweep has run before it (DEL, PERSIST, EXPIRE and TTL on a
\* key whose expiry has passed included).
C20_SweepIsInvisibleInReplies ==
    /\ \A k \in KeySet :
          /\ GetRet(Swept, now, k) = GetRet(data, now, k)
          /\ ExistsRet(Swept, now, k) = ExistsRet(data, now, k)
          /\ DelRet(Swept, k) = DelRet(data, k)
          /\ PersistRet(Swept, k) = PersistRet(data, k)
          /\ ExpireRet(Swept, k) = ExpireRet(data, k)
          /\ TTLRet(Swept, now, k) = TTLRet(data, now, k)
          /\ RenameRet(Swept, k) = RenameRet(data, k)
    /\ \A p \in PatternSet : KeysRet(Swept, now, p) = KeysRet(data, now, p)

----------------------------------------------------------------------------
(* Properties of Store.mu *)

Contexts == Conns \cup {Sweeper}

\* at most one context is inside a Store method body or a sweep
MutualExclusion == \A c \in Contexts, d \in Contexts : (Inside(c) /\ Inside(d)) => c = d

\* s.mu is held by the context that is inside, and by no context that has
\* returned, sleeps, or reads from or writes to its connection
HeldOnlyInside == \A c \in Contexts : mu = c <=> Inside(c)

\* a map iteration belongs to the one context inside, and no other context
\* touches the map before that context has left
ScanIsOfHolder ==
    /\ scan # NoScan => \E c \in Contexts : mu = c /\ at[c] = "range"
    /\ \A c \in Contexts : at[c] = "range" => mu = c

\* the map changes only in a step of the context that holds s.mu
ChangedByHolder ==
    data' # data
        => \E c \in Contexts :
              /\ mu = c
              /\ Inside(c)
              /\ \A d \in Contexts \ {c} : at'[d] = at[d]

\* Keys at the end of its loop: what it leaves and what it returns are those of
\* a Keys that ran alone on the map it found, each key being judged at an
\* instant between the call and now; and those of the one-step Keys when the
\* clock stood still
KeysRanAlone ==
    \A c \in Conns :
        (at[c] = "range" /\ scan.todo = {})
            => /\ \A k \in KeySet :
                     \/ data[k] = scan.snap[k]
                     \/ data[k] = NoEntry /\ Expired(scan.snap[k], now)
               /\ \A k \in scan.acc :
                     scan.snap[k].found /\ Match(scan.p, k) /\ data[k] = scan.snap[k]
               /\ \A k \in KeysRet(scan.snap, now, scan.p) : k \in scan.acc
               /\ now = scan.t
                    => /\ data = KeysData(scan.snap, now)
                       /\ scan.acc = KeysRet(scan.snap, now, scan.p)

\* the sweep at the end of its loop has done what the one-step sweep does
SweepRanAlone ==
    (at[Sweeper] = "range" /\ scan.todo = {}) => data = SweepData(scan.snap, scan.t)

\* C12: all Store operations, from any connection and from the sweeper, are
\* mutually exclusive: at most one context is inside a Store method body or a
\* sweep, so that no map iteration overlaps a mutation; each method's effect
\* and result are those of running it alone; the lock is released on every
\* return path, and no context holds it while it reads from or writes to a
\* connection.
C12_StoreOperationsAreMutuallyExclusive ==
    /\ [](MutualExclusion /\ HeldOnlyInside /\ ScanIsOfHolder)
    /\ [](KeysRanAlone /\ SweepRanAlone)
    /\ [][ChangedByHolder]_vars

\* a Keys has removed an expired key and has a key left to visit, while the
\* sweeper's Sleep is over and another connection is outside the Store: both
\* have to wait for s.mu
C12_Witness ==
    /\ mu = "c1"
    /\ at["c1"] = "range"
    /\ scan.todo # {}
    /\ data # scan.snap
    /\ at["c2"] = "idle"
    /\ at[Sweeper] = "sleep" /\ now >= sweepAt

=============================================================================
